---- MODULE Spec2Model ----
(***************************************************************************)
(* Model of the snow-forecast scraper: the forecast-table extractor, the   *)
(* resort directory fetcher, the resort matcher, the orchestrator, and the *)
(* indexing script with its directory cache and its own resolver.          *)
(*                                                                         *)
(* Texts are sequences of tokens; " " is the whitespace token.  Python's   *)
(* None is the one-token text <<"None">>, which no page text equals.       *)
(***************************************************************************)
EXTENDS Integers, Sequences, FiniteSets, TLC

VARIABLES
    forecast_table,     \* extractor: the page parsed by the last forecast_for_resort call
    forecast_data,      \* extractor: what that call returned or raised
    available_resorts,  \* repository: country -> list of Resort (fetched countries only)
    match_query,        \* matcher: the (country, resort_name) of the last call
    match_result,       \* matcher: what get_matching_resort returned (<<>> is None)
    dir_pc,             \* get_resorts_with_tabs: "idle", "tabs", "returned" or "raised"
    resorts,            \* get_resorts_with_tabs: its local list resorts
    tab_urls,           \* get_resorts_with_tabs: the tab urls still to fetch
    dir_error,          \* get_resorts_with_tabs: the exception it raised, "" if none
    requests,           \* every request so far, in order: its url and whether it was 2xx
    fetched_pages,      \* the directory pages parsed by the current call, in order
    countries_returned, \* get_countries: what the call returned or raised
    site,               \* which of the modelled sites the run scrapes
    config_file,        \* resorts.yaml: "missing", "empty" or "mapping"
    user_resorts,       \* repository: the watch-list, country -> resort names, in file order
    pc,                 \* get_forecasts_for_user_resorts: where the run is
    ci,                 \* the country the current loop is at (index into user_resorts)
    ri,                 \* the resort name the forecast loop is at, within that country
    forecasts,          \* the mapping being built: canonical name -> periods
    error,              \* the exception that left get_forecasts_for_user_resorts, "" if none
    idx_pc,             \* indexing script: where its run is
    idx_user_resorts,   \* indexing script: user_resorts, the flat list of Resort
    snow_forecast_resorts, \* indexing script: what load_snow_forecast_resorts returned last
    cache_file,         \* snow_forecast_resorts.ndjson: whether it exists, and its lines
    load_call,          \* the arguments of the last load_snow_forecast_resorts call
    calls,              \* how many load_snow_forecast_resorts calls were made
    idx_error,          \* the exception that left the indexing script, "" if none
    idx_i,              \* indexing script: the resort its forecast loop is at
    elastic_documents   \* indexing script: the documents built so far

extVars == <<forecast_table, forecast_data>>
matchVars == <<available_resorts, match_query, match_result>>
dirVars == <<dir_pc, resorts, tab_urls, dir_error, requests, fetched_pages, countries_returned>>
dirVars_but_requests == <<dir_pc, resorts, tab_urls, dir_error, fetched_pages, countries_returned>>
orchVars == <<site, config_file, user_resorts, pc, ci, ri, forecasts, error>>
idxVars == <<idx_pc, idx_user_resorts, snow_forecast_resorts, cache_file, load_call, calls,
             idx_error, idx_i, elastic_documents>>
vars == <<forecast_table, forecast_data, available_resorts, match_query, match_result,
          dir_pc, resorts, tab_urls, dir_error, requests, fetched_pages, countries_returned,
          site, config_file, user_resorts, pc, ci, ri, forecasts, error,
          idx_pc, idx_user_resorts, snow_forecast_resorts, cache_file, load_call, calls,
          idx_error, idx_i, elastic_documents>>

\* ---------------------------------------------------------------- bounds
MaxCols == 3       \* cells per time / measurement row
MaxDayCells == 2   \* cells of the days row
MaxDir == 2        \* listings of one country's directory (matcher runs)
MaxRows == 2       \* resort rows of one directory page
MaxTabs == 2       \* tab links of one base directory page
MaxWatch == 2      \* resort names one country of the watch-list holds
MaxCountries == 2  \* countries one load_snow_forecast_resorts call is given
MaxCalls == 3      \* load_snow_forecast_resorts calls in a row

\* ------------------------------------------------------- values and texts
None == <<"None">>
Whitespace == {" "}
\* the em-dash placeholder U+2014, written here as the token "emdash"
EmDash == <<"emdash">>

RECURSIVE LStrip(_)
LStrip(s) == IF s # <<>> /\ Head(s) \in Whitespace THEN LStrip(Tail(s)) ELSE s

RECURSIVE RStrip(_)
RStrip(s) ==
    IF s # <<>> /\ s[Len(s)] \in Whitespace THEN RStrip(SubSeq(s, 1, Len(s) - 1)) ELSE s

\* td.get_text(strip=True) of a cell holding one text node
get_text(cell) == RStrip(LStrip(cell))

DigitValue == [c \in {"0", "1", "2", "3", "4", "5", "6", "7", "8", "9"} |->
    CASE c = "0" -> 0 [] c = "1" -> 1 [] c = "2" -> 2 [] c = "3" -> 3 [] c = "4" -> 4
      [] c = "5" -> 5 [] c = "6" -> 6 [] c = "7" -> 7 [] c = "8" -> 8 [] c = "9" -> 9]

\* int(s) of a string of decimal digits
RECURSIVE int(_)
int(s) == IF s = <<>> THEN 0 ELSE 10 * int(SubSeq(s, 1, Len(s) - 1)) + DigitValue[s[Len(s)]]

\* day_cell.get('colspan', 1), then int(...)
colspan(day_cell) == IF day_cell.colspan = None THEN 1 ELSE int(day_cell.colspan)

\* [x] * n
Repeat(x, n) == [k \in 1..n |-> x]

\* (deliberately wrong variant) one date per day cell, the colspan ignored
DatesOnePerCell(day_cells) == [j \in 1..Len(day_cells) |-> day_cells[j].date]

\* dates.extend([date_text] * colspan) over the day cells, in document order
RECURSIVE Dates(_)
Dates(day_cells) ==
    IF day_cells = <<>> THEN <<>>
    ELSE LET day_cell == day_cells[Len(day_cells)]
         IN Dates(SubSeq(day_cells, 1, Len(day_cells) - 1))
                \o Repeat(day_cell.date, colspan(day_cell))

\* times.append(time_cell.get_text(strip=True)) over the time cells
Times(time_cells) == [i \in 1..Len(time_cells) |-> get_text(time_cells[i])]

\* (deliberately wrong variant) the em-dash replaced by "0" in every measurement row
CellTextsAllZeroed(row) ==
    IF row.present
    THEN [i \in 1..Len(row.cells) |->
            IF get_text(row.cells[i]) = EmDash THEN <<"0">> ELSE get_text(row.cells[i])]
    ELSE <<>>

\* [td.get_text(strip=True) for td in row.find_all('td')] if row else []
CellTexts(row) ==
    IF row.present THEN [i \in 1..Len(row.cells) |-> get_text(row.cells[i])] ELSE <<>>

\* ['0' if cm == EMDASH else cm for cm in snow_data]
ReplaceEmDash(snow_data) ==
    [i \in 1..Len(snow_data) |-> IF snow_data[i] = EmDash THEN <<"0">> ELSE snow_data[i]]

SnowData(row) == ReplaceEmDash(CellTexts(row))

\* (deliberately wrong variant) an absent or short row read by wrapping around, "" when empty
AtWrapped(data, i) == IF data = <<>> THEN <<>> ELSE data[((i - 1) % Len(data)) + 1]

\* data[i] if i < len(data) else None   (i is the 1-based column here)
At(data, i) == IF i <= Len(data) THEN data[i] ELSE None

\* The body of forecast_for_resort after the page is parsed.
ForecastData(page) ==
    IF ~page.table THEN [kind |-> "None", data |-> <<>>]
    ELSE
      LET both == page.days.present /\ page.time.present
          dates == IF both THEN Dates(page.days.cells) ELSE <<>>
          times == IF both THEN Times(page.time.cells) ELSE <<>>
          snow_data == SnowData(page.snow)
          freezing_level_data == CellTexts(page.freezing_level)
          humidity_data == CellTexts(page.humidity)
          wind_data == CellTexts(page.wind)
          total_periods == Len(times)
      IN [kind |-> "list",
          data |-> [i \in 1..total_periods |->
                      [date |-> At(dates, i),
                       time |-> times[i],
                       snow |-> At(snow_data, i),
                       freezing_level |-> At(freezing_level_data, i),
                       humidity |-> At(humidity_data, i),
                       wind |-> At(wind_data, i)]]]

\* response.raise_for_status(), then the parse
ForecastForResort(ok, page) ==
    IF ok THEN ForecastData(page) ELSE [kind |-> "HTTPError", data |-> <<>>]

\* ------------------------------------------------------------ matcher
LowerOf == [c \in {"A", "B", "O", "P", "T"} |->
    CASE c = "A" -> "a" [] c = "B" -> "b" [] c = "O" -> "o" [] c = "P" -> "p" [] c = "T" -> "t"]

\* str.lower()
lower(s) == [i \in 1..Len(s) |-> IF s[i] \in DOMAIN LowerOf THEN LowerOf[s[i]] ELSE s[i]]

\* needle in haystack (Python's substring test)
In(needle, haystack) ==
    \E k \in 0..(Len(haystack) - Len(needle)) :
        SubSeq(haystack, k + 1, k + Len(needle)) = needle

\* for resort in resorts: if resort.name.lower() == resort_name.lower(): return resort
RECURSIVE FirstExact(_, _)
FirstExact(country_resorts, resort_name) ==
    IF country_resorts = <<>> THEN <<>>
    ELSE IF lower(Head(country_resorts).name) = lower(resort_name) THEN <<Head(country_resorts)>>
    ELSE FirstExact(Tail(country_resorts), resort_name)

\* for resort in resorts: if resort_name.lower() in resort.name.lower(): return resort
RECURSIVE FirstContaining(_, _)
FirstContaining(country_resorts, resort_name) ==
    IF country_resorts = <<>> THEN <<>>
    ELSE IF In(lower(resort_name), lower(Head(country_resorts).name)) THEN <<Head(country_resorts)>>
    ELSE FirstContaining(Tail(country_resorts), resort_name)

\* (deliberately wrong variant) the substring pass alone, as the indexing script's resolver does
GetMatchingResortSubstringOnly(available, country, resort_name) ==
    IF country \notin DOMAIN available THEN <<>>
    ELSE FirstContaining(available[country], resort_name)

\* (deliberately wrong variant) the substring pass takes the last listing that contains the name
GetMatchingResortLastContaining(available, country, resort_name) ==
    IF country \notin DOMAIN available THEN <<>>
    ELSE IF FirstExact(available[country], resort_name) # <<>>
    THEN FirstExact(available[country], resort_name)
    ELSE LET country_resorts == available[country]
             hits == {i \in 1..Len(country_resorts) : In(lower(resort_name), lower(country_resorts[i].name))}
         IN IF hits = {} THEN <<>>
            ELSE <<country_resorts[CHOOSE i \in hits : \A k \in hits : i >= k]>>

\* ResortRepository.get_matching_resort; the Optional[Resort] is <<>> or <<resort>>
GetMatchingResort(available, country, resort_name) ==
    IF country \notin DOMAIN available THEN <<>>
    ELSE IF FirstExact(available[country], resort_name) # <<>>
    THEN FirstExact(available[country], resort_name)
    ELSE FirstContaining(available[country], resort_name)

\* ------------------------------------------------------ matcher inputs
Countries == {"ch", "at"}
ListingNames == { <<"T", "o", "p">>, <<"t", "o", "p", " ", "A">>, <<"A", " ", "T", "o", "p">>,
                  <<"o", "p">>, <<"B">> }
TypedNames == { <<"t", "o", "p">>, <<"T", "O", "P">>, <<"o", "p">>, <<"A", " ", "t", "o", "p">>,
                <<"b">>, <<"x">>, <<>> }
Urls == << <<"/resorts/1">>, <<"/resorts/2">>, <<"/resorts/3">>, <<"/resorts/4">> >>
DataUrls == << <<"/resorts/1/6day/mid">>, <<"/resorts/2/6day/mid">>,
               <<"/resorts/3/6day/mid">>, <<"/resorts/4/6day/mid">> >>

\* the listings of one directory: up to MaxDir names, each listing with its own urls
DirectoryNames == UNION {[1..n -> ListingNames] : n \in 0..MaxDir}

\* [Resort(name=r['name'], country=country, url=r['url'], data_url=r['data_url']) ...]
Directory(country, names) ==
    [i \in 1..Len(names) |->
        [name |-> names[i], country |-> country, url |-> Urls[i], data_url |-> DataUrls[i]]]

\* per country: not fetched (<<>>) or the names of its directory (<<names>>)
FetchedOrNot == {<<>>} \cup {<<names>> : names \in DirectoryNames}

\* available_resorts: the fetched countries, each with its list of Resort
Available(choice) ==
    [c \in {k \in Countries : choice[k] # <<>>} |-> Directory(c, choice[c][1])]

NoQuery == [country |-> "", resort_name |-> <<>>, called |-> FALSE]

MatchIdle ==
    /\ available_resorts = << >>
    /\ match_query = NoQuery
    /\ match_result = <<>>

\* ResortRepository.get_matching_resort on some fetched directories
get_matching_resort ==
    /\ ~match_query.called
    /\ \E choice \in [Countries -> FetchedOrNot], country \in Countries,
          resort_name \in TypedNames :
         /\ available_resorts' = Available(choice)
         /\ match_query' = [country |-> country, resort_name |-> resort_name, called |-> TRUE]
         /\ match_result' = GetMatchingResort(Available(choice), country, resort_name)
    /\ UNCHANGED <<idxVars, extVars, dirVars, orchVars>>

\* ------------------------------------------------------ forecast pages
Measurements == {"snow", "freezing_level", "humidity", "wind"}

DateTexts == <<"2025-01-01", "2025-01-02", "2025-01-03", "2025-01-04">>
ColspanAttrs == {None, <<"0">>, <<"1">>, <<"2">>}

TimeTexts == << <<" ", "AM", " ">>, <<"PM">>, <<"night", " ">> >>
GridTexts == [m \in Measurements |->
    CASE m = "snow" -> << EmDash, <<" ", "5">>, <<" ", "emdash", " ">>, <<"1", "2">> >>
      [] m = "freezing_level" -> << <<"2", "1", "0", "0">>, EmDash, <<" ", "9", "0", "0">> >>
      [] m = "humidity" -> << <<"4", "0", " ">>, <<" ", "emdash">>, <<"8", "5">> >>
      [] m = "wind" -> << <<" ", "emdash">>, <<"1", "5">>, <<"3", "0">> >>]

Cycle(texts, i) == texts[((i - 1) % Len(texts)) + 1]

AbsentRow == [present |-> FALSE, cells |-> <<>>]
Row(cells) == [present |-> TRUE, cells |-> cells]

\* a row holding the first n cells of the site's grid row, or no row
GridRows(texts) == {AbsentRow} \cup {Row([i \in 1..n |-> Cycle(texts, i)]) : n \in 0..MaxCols}

DaysRows ==
    {AbsentRow} \cup
    UNION {{Row([j \in 1..n |-> [date |-> <<DateTexts[j]>>, colspan |-> f[j]]]) :
                f \in [1..n -> ColspanAttrs]} : n \in 0..MaxDayCells}

NoTablePage ==
    [table |-> FALSE, days |-> AbsentRow, time |-> AbsentRow, snow |-> AbsentRow,
     freezing_level |-> AbsentRow, humidity |-> AbsentRow, wind |-> AbsentRow]

TablePages ==
    [table : {TRUE}, days : DaysRows, time : GridRows(TimeTexts),
     snow : GridRows(GridTexts["snow"]),
     freezing_level : GridRows(GridTexts["freezing_level"]),
     humidity : GridRows(GridTexts["humidity"]),
     wind : GridRows(GridTexts["wind"])]

NotCalled == [kind |-> "not_called", data |-> <<>>]

\* ---------------------------------------------------- extractor actions
ExtractIdle ==
    /\ forecast_table = NoTablePage
    /\ forecast_data = NotCalled

\* SnowForecast.forecast_for_resort on a page the site serves
forecast_for_resort ==
    /\ forecast_data = NotCalled
    /\ \E ok \in BOOLEAN, has_table \in BOOLEAN :
         IF ok /\ has_table
         THEN \E page \in TablePages :
                 /\ forecast_table' = page
                 /\ forecast_data' = ForecastForResort(ok, page)
         ELSE /\ forecast_table' = NoTablePage
              /\ forecast_data' = ForecastForResort(ok, NoTablePage)
    /\ UNCHANGED <<idxVars, matchVars, dirVars, orchVars>>

\* the same page served again with one measurement row gone, and fetched again
WithoutRow(page, m) == [page EXCEPT ![m] = AbsentRow]

forecast_for_resort_row_removed ==
    /\ forecast_data.kind = "list"
    /\ \E m \in Measurements :
         /\ forecast_table[m].present
         /\ forecast_table' = WithoutRow(forecast_table, m)
         /\ forecast_data' = ForecastForResort(TRUE, forecast_table')
    /\ UNCHANGED <<idxVars, matchVars, dirVars, orchVars>>

\* -------------------------------------------------- directory fetcher
\* Python truthiness of an attribute value: None and "" are false
Truthy(attr) == attr # None /\ attr # <<>>

\* the dict appended for one row
RowListing(row) ==
    [name |-> get_text(row.name_cell.text), data_url |-> row.data_url, url |-> row.name_cell.a]

\* SnowForecast._extract_resorts_from_page over the page's digest rows;
\* resort_a_href['href'] raises TypeError when the name cell holds no link
RECURSIVE ExtractResortsFromPage(_)
ExtractResortsFromPage(rows) ==
    IF rows = <<>> THEN [kind |-> "list", data |-> <<>>]
    ELSE LET row == Head(rows)
         IN IF row.name_cell.present /\ Truthy(row.data_url)
            THEN IF row.name_cell.a = None
                 THEN [kind |-> "TypeError", data |-> <<>>]
                 ELSE LET rest == ExtractResortsFromPage(Tail(rows))
                      IN IF rest.kind = "list"
                         THEN [kind |-> "list", data |-> <<RowListing(row)>> \o rest.data]
                         ELSE rest
            ELSE ExtractResortsFromPage(Tail(rows))

\* (deliberately wrong variant) the tab links taken last to first
TabUrlsReversed(page) ==
    IF page.tabs.present
    THEN [i \in 1..Len(page.tabs.hrefs) |-> page.tabs.hrefs[Len(page.tabs.hrefs) + 1 - i]]
    ELSE <<>>

\* tab_urls = [link['href'] for link in tab_links] when the tabs div is there
TabUrls(page) == IF page.tabs.present THEN page.tabs.hrefs ELSE <<>>

\* (deliberately wrong variant) a listing whose name is already in the list is not added again
ExtendUnique(list, more) ==
    list \o SelectSeq(more, LAMBDA r : \A i \in 1..Len(list) : list[i].name # r.name)

\* resorts.extend(more)
Extend(list, more) == list \o more

\* f"{self.base_url}/countries/{country}/resorts/"
BaseUrl(country) == <<"/countries/", country, "/resorts/">>

\* The first request of get_resorts_with_tabs(country): the base page, its rows,
\* its tab links.
RequestBase(country, pages) ==
    /\ dir_pc = "idle"
    /\ UNCHANGED countries_returned
    /\ \E ok \in BOOLEAN, page \in pages :
         /\ requests' = Append(requests, [url |-> BaseUrl(country), ok |-> ok])
         /\ LET extracted == ExtractResortsFromPage(page.rows)
            IN IF ~ok
               THEN /\ dir_pc' = "raised"
                    /\ dir_error' = "HTTPError"
                    /\ UNCHANGED <<resorts, tab_urls, fetched_pages>>
               ELSE IF extracted.kind # "list"
               THEN /\ dir_pc' = "raised"
                    /\ dir_error' = extracted.kind
                    /\ fetched_pages' = <<page>>
                    /\ UNCHANGED <<resorts, tab_urls>>
               ELSE /\ resorts' = extracted.data
                    /\ tab_urls' = TabUrls(page)
                    /\ fetched_pages' = <<page>>
                    /\ dir_pc' = IF TabUrls(page) = <<>> THEN "returned" ELSE "tabs"
                    /\ UNCHANGED dir_error

\* One turn of the loop over tab_urls: request the tab, extend resorts by its rows.
RequestTab(pages) ==
    /\ dir_pc = "tabs"
    /\ UNCHANGED countries_returned
    /\ \E ok \in BOOLEAN, page \in pages :
         /\ requests' = Append(requests, [url |-> Head(tab_urls), ok |-> ok])
         /\ LET extracted == ExtractResortsFromPage(page.rows)
            IN IF ~ok
               THEN /\ dir_pc' = "raised"
                    /\ dir_error' = "HTTPError"
                    /\ UNCHANGED <<resorts, tab_urls, fetched_pages>>
               ELSE IF extracted.kind # "list"
               THEN /\ dir_pc' = "raised"
                    /\ dir_error' = extracted.kind
                    /\ fetched_pages' = Append(fetched_pages, page)
                    /\ UNCHANGED <<resorts, tab_urls>>
               ELSE /\ resorts' = Extend(resorts, extracted.data)
                    /\ tab_urls' = Tail(tab_urls)
                    /\ fetched_pages' = Append(fetched_pages, page)
                    /\ dir_pc' = IF Tail(tab_urls) = <<>> THEN "returned" ELSE "tabs"
                    /\ UNCHANGED dir_error

\* ---------------------------------------------------- directory pages
NameCell(text, a) == [present |-> TRUE, text |-> text, a |-> a]
NoNameCell == [present |-> FALSE, text |-> <<>>, a |-> None]

\* the digest rows the site's directory pages are cut from
Catalogue ==
    << [data_url |-> DataUrls[1], name_cell |-> NameCell(<<" ", "T", "o", "p", " ">>, Urls[1])],
       [data_url |-> DataUrls[2], name_cell |-> NameCell(<<"o", "p">>, Urls[2])],
       [data_url |-> None,        name_cell |-> NameCell(<<"B">>, Urls[3])],
       [data_url |-> DataUrls[1], name_cell |-> NameCell(<<"T", "o", "p">>, Urls[1])],
       [data_url |-> <<>>,        name_cell |-> NameCell(<<"B">>, Urls[3])],
       [data_url |-> DataUrls[3], name_cell |-> NameCell(<<"A", " ", "T", "o", "p">>, Urls[3])],
       [data_url |-> DataUrls[4], name_cell |-> NoNameCell],
       [data_url |-> DataUrls[4], name_cell |-> NameCell(<<"B", " ">>, None)],
       [data_url |-> DataUrls[4], name_cell |-> NameCell(<<"T", "o", "p">>, Urls[4])] >>

\* up to MaxRows consecutive rows of the catalogue
RowSlices ==
    {<<>>} \cup
    UNION {{SubSeq(Catalogue, a, a + n - 1) : a \in 1..(Len(Catalogue) - n + 1)} : n \in 1..MaxRows}

TabHrefs == << <<"/countries/tab/1">>, <<"/countries/tab/2">>, <<"/countries/tab/3">> >>
NoTabs == [present |-> FALSE, hrefs |-> <<>>]
TabsDivs == {NoTabs} \cup {[present |-> TRUE, hrefs |-> SubSeq(TabHrefs, 1, n)] : n \in 0..MaxTabs}

BasePages == [rows : RowSlices, tabs : TabsDivs]
TabPages == [rows : RowSlices, tabs : {NoTabs}]

DirIdle ==
    /\ dir_pc = "idle"
    /\ resorts = <<>>
    /\ tab_urls = <<>>
    /\ dir_error = ""
    /\ requests = <<>>
    /\ fetched_pages = <<>>
    /\ countries_returned = NotCalled

\* ------------------------------------------------- the countries page
\* f"{self.base_url}/countries"
CountriesUrl == <<"/countries">>

\* the li elements of a countries list: with a link, without one, and with a link
\* that has no href
CountryItems ==
    << [a |-> TRUE,  text |-> <<" ", "Austria", " ">>, href |-> <<"/countries/at">>],
       [a |-> FALSE, text |-> <<>>,                    href |-> None],
       [a |-> TRUE,  text |-> <<"Switzerland">>,       href |-> <<"/countries/ch">>],
       [a |-> TRUE,  text |-> <<"Andorra">>,           href |-> None] >>

\* the /countries page: the anchor with id europe, the ul.countries-list after it
CountriesPages ==
    {[europe_anchor |-> FALSE, countries_list |-> FALSE, items |-> <<>>],
     [europe_anchor |-> TRUE,  countries_list |-> FALSE, items |-> <<>>],
     [europe_anchor |-> TRUE,  countries_list |-> TRUE,  items |-> <<>>],
     [europe_anchor |-> TRUE,  countries_list |-> TRUE,  items |-> SubSeq(CountryItems, 1, 3)],
     [europe_anchor |-> TRUE,  countries_list |-> TRUE,  items |-> SubSeq(CountryItems, 3, 4)]}

\* the loop over the li elements: one {'name', 'url'} per li that holds a link;
\* country_link['href'] raises KeyError when the link has no href
RECURSIVE CountryDicts(_)
CountryDicts(items) ==
    IF items = <<>> THEN [kind |-> "list", data |-> <<>>]
    ELSE LET li == Head(items)
         IN IF ~li.a THEN CountryDicts(Tail(items))
            ELSE IF li.href = None THEN [kind |-> "KeyError", data |-> <<>>]
            ELSE LET rest == CountryDicts(Tail(items))
                 IN IF rest.kind = "list"
                    THEN [kind |-> "list",
                          data |-> <<[name |-> get_text(li.text), url |-> li.href]>> \o rest.data]
                    ELSE rest

\* what get_countries gives for the response to its one request
GetCountries(ok, page) ==
    IF ~ok THEN [kind |-> "HTTPError", data |-> <<>>]
    ELSE IF ~page.europe_anchor THEN [kind |-> "list", data |-> <<>>]
    ELSE IF ~page.countries_list THEN [kind |-> "list", data |-> <<>>]
    ELSE CountryDicts(page.items)

\* SnowForecast.get_countries()
get_countries ==
    /\ dir_pc = "idle"
    /\ countries_returned = NotCalled
    /\ \E ok \in BOOLEAN, page \in CountriesPages :
         /\ requests' = Append(requests, [url |-> CountriesUrl, ok |-> ok])
         /\ countries_returned' = GetCountries(ok, page)
    /\ UNCHANGED <<dir_pc, resorts, tab_urls, dir_error, fetched_pages,
                   idxVars, extVars, matchVars, orchVars>>

\* SnowForecast.get_resorts_with_tabs(country), up to the end of its base page
get_resorts_with_tabs ==
    /\ \E country \in Countries : RequestBase(country, BasePages)
    /\ UNCHANGED <<idxVars, extVars, matchVars, orchVars>>

\* SnowForecast.get_resorts_with_tabs, one tab page
get_resorts_with_tabs_tab ==
    /\ RequestTab(TabPages)
    /\ UNCHANGED <<idxVars, extVars, matchVars, orchVars>>

\* ------------------------------------------------------- orchestrator
\* (deliberately wrong variant) a failed request is swallowed and the run goes on
PcAfterRequestSwallowed(ok, next) == next

\* response.raise_for_status(): a non-2xx response ends the run, nothing catches it
PcAfterRequest(ok, next) == IF ok THEN next ELSE "failed"

\* (deliberately wrong variant) the result is stored whenever it is not None
StoreForecastUnlessNone(mapping, name, result) ==
    IF result.kind = "list"
    THEN [k \in DOMAIN mapping \cup {name} |-> IF k = name THEN result.data ELSE mapping[k]]
    ELSE mapping

\* (deliberately wrong variant) a name that already has periods keeps them
StoreForecastKeepFirst(mapping, name, result) ==
    IF result.kind = "list" /\ result.data # <<>> /\ name \notin DOMAIN mapping
    THEN [k \in DOMAIN mapping \cup {name} |-> IF k = name THEN result.data ELSE mapping[k]]
    ELSE mapping

\* if forecast_data_dicts: forecasts[resort.name] = [ForecastData(...) for data in ...]
StoreForecast(mapping, name, result) ==
    IF result.kind = "list" /\ result.data # <<>>
    THEN [k \in DOMAIN mapping \cup {name} |-> IF k = name THEN result.data ELSE mapping[k]]
    ELSE mapping

\* self.available_resorts[country] = [Resort(name=r['name'], country=country, ...) for r in resorts]
StoreDirectory(available, country, listings) ==
    [c \in DOMAIN available \cup {country} |->
        IF c = country
        THEN [i \in 1..Len(listings) |->
                [name |-> listings[i].name, country |-> country,
                 url |-> listings[i].url, data_url |-> listings[i].data_url]]
        ELSE available[c]]

\* ------------------------------------------------ the sites of the runs
GridRow(texts, n) == Row([i \in 1..n |-> Cycle(texts, i)])

\* a regular table of n periods under one days cell spanning them
RegularTable(n, span) ==
    [table |-> TRUE,
     days |-> Row(<<[date |-> <<DateTexts[1]>>, colspan |-> span]>>),
     time |-> GridRow(TimeTexts, n),
     snow |-> GridRow(GridTexts["snow"], n),
     freezing_level |-> GridRow(GridTexts["freezing_level"], n),
     humidity |-> GridRow(GridTexts["humidity"], n),
     wind |-> GridRow(GridTexts["wind"], n)]

\* the forecast pages a site serves: two periods; no days row; no table; one period
SitePages ==
    << RegularTable(2, <<"2">>),
       [RegularTable(2, <<"2">>) EXCEPT !.days = AbsentRow],
       NoTablePage,
       [RegularTable(1, None) EXCEPT !.wind = AbsentRow] >>

Sites == {0, 1, 2, 3, 4}

IndexOf(url, urls) == CHOOSE k \in 1..Len(urls) : urls[k] = url

\* the forecast page the site serves at a resort's data url
SiteForecastPage(s, data_url) ==
    SitePages[((IndexOf(data_url, DataUrls) - 1 + s) % Len(SitePages)) + 1]

\* the base directory page the site serves for a country
SiteBasePage(s, country) ==
    CASE (s = 0 /\ country = "ch") \/ (s = 1 /\ country = "at") ->
            [rows |-> SubSeq(Catalogue, 1, 2), tabs |-> NoTabs]
      [] (s = 0 /\ country = "at") \/ (s = 1 /\ country = "ch") ->
            [rows |-> SubSeq(Catalogue, 6, 6),
             tabs |-> [present |-> TRUE, hrefs |-> SubSeq(TabHrefs, 1, 2)]]
      [] s = 2 /\ country = "ch" ->
            [rows |-> <<>>, tabs |-> [present |-> TRUE, hrefs |-> SubSeq(TabHrefs, 1, 1)]]
      [] s = 2 /\ country = "at" ->
            [rows |-> SubSeq(Catalogue, 3, 5), tabs |-> NoTabs]
      [] s \in {3, 4} /\ country = "ch" ->
            [rows |-> SubSeq(Catalogue, 1, 1), tabs |-> NoTabs]
      [] s \in {3, 4} /\ country = "at" ->
            [rows |-> SubSeq(Catalogue, 9, 9), tabs |-> NoTabs]

\* the tab page the site serves at a tab link
SiteTabPage(s, href) ==
    CASE href = TabHrefs[1] -> [rows |-> SubSeq(Catalogue, 4, 4), tabs |-> NoTabs]
      [] href = TabHrefs[2] -> [rows |-> SubSeq(Catalogue, 2, 2), tabs |-> NoTabs]
      [] OTHER -> [rows |-> <<>>, tabs |-> NoTabs]

\* ---------------------------------------------------------- watch-lists
WatchNames == { <<"t", "o", "p">>, <<"O", "p">>, <<"a", " ", "T", "O", "P">> }
\* resorts.yaml is not there, is empty, or holds a mapping
ConfigFiles == {"missing", "empty", "mapping"}
NameLists == UNION {[1..n -> WatchNames] : n \in 0..MaxWatch}
CountryOrders == { <<>>, <<"ch">>, <<"at">>, <<"ch", "at">>, <<"at", "ch">> }

\* what yaml gives for one country: a list of names, or None for a key without a value
YamlLists ==
    [null : {FALSE}, names : NameLists] \cup {[null |-> TRUE, names |-> <<>>]}

\* a resorts.yaml mapping: distinct countries in file order, each with its names
WatchList(order, lists) ==
    [i \in 1..Len(order) |->
        [country |-> order[i], resort_names |-> lists[i].names, null |-> lists[i].null]]

OrchIdle ==
    /\ user_resorts = <<>>
    /\ pc = "start"
    /\ ci = 1
    /\ ri = 1
    /\ forecasts = << >>
    /\ error = ""

\* ------------------------------------------------ orchestrator actions
\* ResortRepository.load_user_resorts: without the config file FileNotFoundError is
\* raised; an empty file gives None (user_resorts stays <<>>, config_file tells it is
\* None); else the watch-list as the file gives it
load_user_resorts ==
    /\ pc = "start"
    /\ IF config_file = "missing"
       THEN /\ pc' = "failed"
            /\ error' = "FileNotFoundError"
            /\ UNCHANGED user_resorts
       ELSE IF config_file = "empty"
       THEN /\ pc' = "update"
            /\ UNCHANGED <<user_resorts, error>>
       ELSE /\ \E order \in CountryOrders :
                 \E lists \in [1..Len(order) -> YamlLists] :
                    /\ user_resorts' = WatchList(order, lists)
                    /\ pc' = IF order = <<>> THEN "forecast" ELSE "update"
            /\ UNCHANGED error
    /\ UNCHANGED <<idxVars, site, config_file, ci, ri, forecasts, extVars, matchVars, dirVars>>

\* update_available_resorts: self.user_resorts.keys() on None raises AttributeError,
\* nothing catches it
update_available_resorts_none ==
    /\ pc = "update"
    /\ config_file = "empty"
    /\ pc' = "failed"
    /\ error' = "AttributeError"
    /\ UNCHANGED <<idxVars, site, config_file, user_resorts, ci, ri, forecasts,
                   extVars, matchVars, dirVars>>

\* update_available_resorts: get_resorts_with_tabs(country) up to the end of the base page
update_available_resorts_base ==
    /\ pc = "update"
    /\ config_file = "mapping"
    /\ RequestBase(user_resorts[ci].country, {SiteBasePage(site, user_resorts[ci].country)})
    /\ pc' = PcAfterRequest(requests'[Len(requests')].ok, "update")
    /\ error' = IF requests'[Len(requests')].ok THEN error ELSE "HTTPError"
    /\ UNCHANGED <<idxVars, site, config_file, user_resorts, ci, ri, forecasts, available_resorts,
                   match_query, match_result, extVars>>

\* update_available_resorts: get_resorts_with_tabs(country), one tab page
update_available_resorts_tab ==
    /\ pc = "update"
    /\ RequestTab({SiteTabPage(site, Head(tab_urls))})
    /\ pc' = PcAfterRequest(requests'[Len(requests')].ok, "update")
    /\ error' = IF requests'[Len(requests')].ok THEN error ELSE "HTTPError"
    /\ UNCHANGED <<idxVars, site, config_file, user_resorts, ci, ri, forecasts, available_resorts,
                   match_query, match_result, extVars>>

\* update_available_resorts: the returned listings stored, on to the next country
update_available_resorts_store ==
    /\ pc = "update"
    /\ dir_pc = "returned"
    /\ available_resorts' = StoreDirectory(available_resorts, user_resorts[ci].country, resorts)
    /\ dir_pc' = "idle"
    /\ resorts' = <<>>
    /\ fetched_pages' = <<>>
    /\ ci' = IF ci = Len(user_resorts) THEN 1 ELSE ci + 1
    /\ pc' = IF ci = Len(user_resorts) THEN "forecast" ELSE "update"
    /\ UNCHANGED <<idxVars, site, config_file, user_resorts, ri, forecasts, error, tab_urls, dir_error, requests,
                   countries_returned,
                   match_query, match_result, extVars>>

\* the body of the two loops of get_forecasts_for_user_resorts for one resort name
get_forecast_for_entry ==
    /\ pc = "forecast"
    /\ ci <= Len(user_resorts)
    /\ ~user_resorts[ci].null
    /\ ri <= Len(user_resorts[ci].resort_names)
    /\ LET country == user_resorts[ci].country
           resort_name == user_resorts[ci].resort_names[ri]
           resort == GetMatchingResort(available_resorts, country, resort_name)
       IN /\ match_query' = [country |-> country, resort_name |-> resort_name, called |-> TRUE]
          /\ match_result' = resort
          /\ IF resort = <<>>
             THEN /\ ri' = ri + 1
                  /\ UNCHANGED <<pc, forecasts, error, requests, extVars>>
             ELSE \E ok \in BOOLEAN :
                    LET page == SiteForecastPage(site, resort[1].data_url)
                        forecast_data_dicts == ForecastForResort(ok, page)
                    IN /\ requests' = Append(requests, [url |-> resort[1].data_url, ok |-> ok])
                       /\ forecast_table' = IF ok THEN page ELSE forecast_table
                       /\ forecast_data' = forecast_data_dicts
                       /\ pc' = PcAfterRequest(ok, "forecast")
                       /\ error' = IF ok THEN error ELSE "HTTPError"
                       /\ ri' = IF ok THEN ri + 1 ELSE ri
                       /\ forecasts' = IF ok
                                       THEN StoreForecast(forecasts, resort[1].name,
                                                          forecast_data_dicts)
                                       ELSE forecasts
    /\ UNCHANGED <<idxVars, site, config_file, user_resorts, ci, available_resorts, dirVars_but_requests>>

\* for country, resort_names in user_resorts.items(): the next country
get_forecasts_next_country ==
    /\ pc = "forecast"
    /\ ci <= Len(user_resorts)
    /\ ~user_resorts[ci].null
    /\ ri > Len(user_resorts[ci].resort_names)
    /\ ci' = ci + 1
    /\ ri' = 1
    /\ UNCHANGED <<idxVars, site, config_file, user_resorts, pc, forecasts, error, extVars, matchVars, dirVars>>

\* for resort_name in resort_names: iterating None raises TypeError, nothing catches it
get_forecasts_none_list ==
    /\ pc = "forecast"
    /\ ci <= Len(user_resorts)
    /\ user_resorts[ci].null
    /\ pc' = "failed"
    /\ error' = "TypeError"
    /\ UNCHANGED <<idxVars, site, config_file, user_resorts, ci, ri, forecasts, extVars, matchVars, dirVars>>

\* return forecasts
get_forecasts_return ==
    /\ pc = "forecast"
    /\ ci > Len(user_resorts)
    /\ pc' = "done"
    /\ UNCHANGED <<idxVars, site, config_file, user_resorts, ci, ri, forecasts, error, extVars, matchVars, dirVars>>

\* ------------------------------------------------------ indexing script
\* str.lower() of a country name
CountryLower(country) == IF country = "CH" THEN "ch" ELSE country

\* the pages get_resorts_with_tabs parses for a country when every request is 2xx
SiteDirectoryPages(s, country) ==
    LET base == SiteBasePage(s, country)
    IN <<base>> \o [t \in 1..Len(TabUrls(base)) |-> SiteTabPage(s, TabUrls(base)[t])]

RECURSIVE ExtendAll(_, _)
ExtendAll(list, pages) ==
    IF pages = <<>> THEN list
    ELSE ExtendAll(Extend(list, ExtractResortsFromPage(Head(pages).rows).data), Tail(pages))

\* sf.get_resorts_with_tabs(country) as one call: the base page's rows, extended by
\* each tab's rows
GetResortsWithTabs(s, country) == ExtendAll(<<>>, SiteDirectoryPages(s, country))

\* load_user_resorts of the indexing script: one Resort per configured name, a
\* country whose list is None or empty gives none
RECURSIVE ElasticLoadUserResorts(_)
ElasticLoadUserResorts(yaml_data) ==
    IF yaml_data = <<>> THEN <<>>
    ELSE LET country == Head(yaml_data).country
             resort_names == Head(yaml_data).resort_names
         IN (IF Head(yaml_data).null \/ resort_names = <<>> THEN <<>>
             ELSE [j \in 1..Len(resort_names) |->
                     [name |-> resort_names[j], country |-> country,
                      url |-> None, data_url |-> None, geo |-> None]])
            \o ElasticLoadUserResorts(Tail(yaml_data))

\* for sf_resort in country_resorts: if user_resort.name.lower() in sf_resort.name.lower()
RECURSIVE FirstSubstringMatch(_, _)
FirstSubstringMatch(country_resorts, name) ==
    IF country_resorts = <<>> THEN <<>>
    ELSE IF In(lower(name), lower(Head(country_resorts).name)) THEN <<Head(country_resorts)>>
    ELSE FirstSubstringMatch(Tail(country_resorts), name)

\* update_user_resorts: url and data_url of the first listing that contains the name
UpdateUserResorts(list, by_country) ==
    [k \in 1..Len(list) |->
        LET country_resorts == IF list[k].country \in DOMAIN by_country
                               THEN by_country[list[k].country] ELSE <<>>
            sf_resort == FirstSubstringMatch(country_resorts, list[k].name)
        IN IF sf_resort = <<>> THEN list[k]
           ELSE [list[k] EXCEPT !.url = sf_resort[1].url, !.data_url = sf_resort[1].data_url]]

\* Resort(name=raw_resort['name'], country=country, url=..., data_url=...)
CountryResorts(country, raw_resorts) ==
    [i \in 1..Len(raw_resorts) |->
        [name |-> raw_resorts[i].name, country |-> country,
         url |-> raw_resorts[i].url, data_url |-> raw_resorts[i].data_url, geo |-> None]]

\* the NDJSON lines appended for one country
CacheLines(country, country_resorts) ==
    [i \in 1..Len(country_resorts) |->
        [country |-> country,
         resort_data |-> [name |-> country_resorts[i].name,
                          country |-> country_resorts[i].country,
                          url |-> country_resorts[i].url,
                          data_url |-> country_resorts[i].data_url]]]

\* the first branch of load_snow_forecast_resorts: the mapping read back from the file
ReadCache(lines) ==
    [c \in {lines[k].country : k \in 1..Len(lines)} |->
        LET own == SelectSeq(lines, LAMBDA line : line.country = c)
        IN [i \in 1..Len(own) |->
              [name |-> own[i].resort_data.name, country |-> own[i].resort_data.country,
               url |-> own[i].resort_data.url, data_url |-> own[i].resort_data.data_url,
               geo |-> None]]]

NoCacheFile == [exists |-> FALSE, lines |-> <<>>]

\* the urls get_resorts_with_tabs(country.lower()) requests when every answer is
\* 2xx: the base page, then its tab links in page order
CountryUrls(s, country) ==
    <<BaseUrl(CountryLower(country))>> \o TabUrls(SiteBasePage(s, CountryLower(country)))

RECURSIVE AllLoadUrls(_, _)
AllLoadUrls(s, countries) ==
    IF countries = <<>> THEN <<>>
    ELSE CountryUrls(s, Head(countries)) \o AllLoadUrls(s, Tail(countries))

\* the second branch of load_snow_forecast_resorts: country by country the directory
\* is fetched, stored in the mapping and appended to the cache file.  fail_at is the
\* number of the request of this call that answers non-2xx (0: none does); whether
\* it is a base page or a tab page, raise_for_status raises out of the loop with
\* what was appended for the countries before left in the file
RECURSIVE FetchCountries(_, _, _, _, _)
FetchCountries(s, countries, fail_at, resorts_by_country, file) ==
    IF countries = <<>>
    THEN [kind |-> "dict", data |-> resorts_by_country, file |-> file]
    ELSE LET country == Head(countries)
             n == Len(CountryUrls(s, country))
             country_resorts ==
                 CountryResorts(country, GetResortsWithTabs(s, CountryLower(country)))
         IN IF fail_at \in 1..n
            THEN [kind |-> "HTTPError", data |-> << >>, file |-> file]
            ELSE FetchCountries(s, Tail(countries), IF fail_at = 0 THEN 0 ELSE fail_at - n,
                                [c \in DOMAIN resorts_by_country \cup {country} |->
                                    IF c = country THEN country_resorts
                                    ELSE resorts_by_country[c]],
                                [exists |-> TRUE,
                                 lines |-> file.lines \o CacheLines(country, country_resorts)])

\* load_snow_forecast_resorts(countries, force_load) against the site and the file
LoadSnowForecastResorts(s, file, countries, force_load, fail_at) ==
    IF ~force_load /\ file.exists
    THEN [kind |-> "dict", data |-> ReadCache(file.lines), file |-> file]
    ELSE FetchCountries(s, countries, fail_at, << >>, file)

\* the requests of the second branch: per country its base page and tabs, up to and
\* with the request that fails
LoadRequests(s, countries, fail_at) ==
    LET urls == AllLoadUrls(s, countries)
        last == IF fail_at = 0 THEN Len(urls) ELSE fail_at
    IN [k \in 1..last |-> [url |-> urls[k], ok |-> k # fail_at]]

\* ---------------------------------------------- calls of the cache loader
CacheCountries == {"ch", "at", "CH"}
\* list(set(resort.country for resort in user_resorts)): no country twice, any order
CountryLists ==
    {countries \in UNION {[1..n -> CacheCountries] : n \in 0..MaxCountries} :
        \A i, j \in 1..Len(countries) : i # j => countries[i] # countries[j]}
NoLoadCall == [countries |-> <<>>, force_load |-> FALSE, called |-> FALSE]
NoMapping == [kind |-> "not_called", data |-> << >>]

IndexIdle ==
    /\ idx_pc = "start"
    /\ idx_user_resorts = <<>>
    /\ snow_forecast_resorts = NoMapping
    /\ cache_file = NoCacheFile
    /\ load_call = NoLoadCall
    /\ calls = 0
    /\ idx_error = ""
    /\ idx_i = 1
    /\ elastic_documents = <<>>

\* one call load_snow_forecast_resorts(countries, force_load); the file stays on disk
\* from call to call
load_snow_forecast_resorts ==
    /\ calls < MaxCalls
    /\ \E countries \in CountryLists, force_load \in BOOLEAN :
         \E fail_at \in 0..Len(AllLoadUrls(site, countries)) :
            LET out == LoadSnowForecastResorts(site, cache_file, countries, force_load, fail_at)
            IN /\ load_call' = [countries |-> countries, force_load |-> force_load,
                                called |-> TRUE]
               /\ snow_forecast_resorts' = [kind |-> out.kind, data |-> out.data]
               /\ cache_file' = out.file
               /\ requests' = IF ~force_load /\ cache_file.exists THEN requests
                              ELSE requests \o LoadRequests(site, countries, fail_at)
    /\ calls' = calls + 1
    /\ UNCHANGED <<idx_pc, idx_user_resorts, idx_error, idx_i, elastic_documents,
                   extVars, matchVars, dirVars_but_requests, orchVars>>


\* ------------------------------------------- one run of the indexing script
\* the geo value a saved Resort holds for its url
Coordinates(url) == <<"geo">> \o url

\* the entries of a saved list: those with a url hold coordinates
Located(list) ==
    [k \in 1..Len(list) |->
        IF Truthy(list[k].url)
        THEN [list[k] EXCEPT !.geo = Coordinates(list[k].url)]
        ELSE list[k]]

\* for user_resort in user_resorts: if user_resort.url: sf.get_resort_coordinates(...);
\* SnowForecast has no such method, so the first entry with a url raises AttributeError
GeoLoopRaises(list) == \E k \in 1..Len(list) : Truthy(list[k].url)

\* the directories of the site for the countries of the list
SiteDirectories(s, list) ==
    [c \in {list[k].country : k \in 1..Len(list)} |->
        CountryResorts(c, GetResortsWithTabs(s, CountryLower(c)))]

\* user_resorts.json as the run finds it: missing, or a list of resolved and located
\* Resort dicts for some resorts.yaml
NoJsonFile == [exists |-> FALSE, data |-> <<>>]
SavedFor(s, yaml_resorts) ==
    [exists |-> TRUE,
     data |-> Located(UpdateUserResorts(yaml_resorts, SiteDirectories(s, yaml_resorts)))]
JsonFiles(s, yaml_resorts) ==
    {NoJsonFile, SavedFor(s, yaml_resorts)} \cup
    (IF yaml_resorts = <<>> THEN {} ELSE {SavedFor(s, Tail(yaml_resorts))})

Keys(list) == {<<list[k].name, list[k].country>> : k \in 1..Len(list)}

\* reload_needed after the comparison of the saved list with the yaml list
ReloadNeeded(json_file, yaml_resorts) ==
    ~(/\ json_file.exists
      /\ Len(json_file.data) = Len(yaml_resorts)
      /\ Keys(json_file.data) = Keys(yaml_resorts))

\* sum(float(point['snow'].replace('cm', '0')) for point in ... if point.get('snow'));
\* the snow texts of the site's pages are digit texts
RECURSIVE TotalSnow(_)
TotalSnow(points) ==
    IF points = <<>> THEN 0
    ELSE (IF Truthy(Head(points).snow) THEN int(Head(points).snow) ELSE 0)
            + TotalSnow(Tail(points))

\* create_snow_forecast_document
CreateSnowForecastDocument(resort, points) ==
    [name |-> resort.name, country |-> resort.country,
     geo |-> IF resort.geo = None THEN <<>> ELSE resort.geo,
     forecasts |-> points, total_snow_cm |-> TotalSnow(points)]

\* the start of the script: resorts.yaml loaded, user_resorts.json compared with it
elastic_main_start ==
    /\ idx_pc = "start"
    /\ IF config_file = "missing"
       THEN \* open(yaml_path, 'r')
            /\ idx_pc' = "failed"
            /\ idx_error' = "FileNotFoundError"
            /\ UNCHANGED idx_user_resorts
       ELSE IF config_file = "empty"
       THEN \* yaml_data is None: yaml_data.items()
            /\ idx_pc' = "failed"
            /\ idx_error' = "AttributeError"
            /\ UNCHANGED idx_user_resorts
       ELSE /\ \E order \in CountryOrders :
                 \E lists \in [1..Len(order) -> YamlLists] :
                    LET yaml_resorts == ElasticLoadUserResorts(WatchList(order, lists))
                    IN \E json_file \in JsonFiles(site, yaml_resorts) :
                         IF ReloadNeeded(json_file, yaml_resorts)
                         THEN /\ idx_user_resorts' = yaml_resorts
                              /\ idx_pc' = "reload"
                         ELSE /\ idx_user_resorts' = json_file.data
                              /\ idx_pc' = "forecasts"
            /\ UNCHANGED idx_error
    /\ UNCHANGED <<snow_forecast_resorts, cache_file, load_call, calls, idx_i,
                   elastic_documents, extVars, matchVars, dirVars, orchVars>>

\* if reload_needed: the directories loaded, the entries resolved, then the geo loop;
\* the list is saved when the loop found no entry with a url
elastic_main_reload ==
    /\ idx_pc = "reload"
    /\ \E countries \in {cs \in CountryLists :
                            {cs[k] : k \in 1..Len(cs)} =
                            {idx_user_resorts[k].country : k \in 1..Len(idx_user_resorts)}} :
         \E fail_at \in 0..Len(AllLoadUrls(site, countries)) :
            LET out == LoadSnowForecastResorts(site, cache_file, countries, FALSE, fail_at)
                updated == UpdateUserResorts(idx_user_resorts, out.data)
            IN /\ load_call' = [countries |-> countries, force_load |-> FALSE, called |-> TRUE]
               /\ snow_forecast_resorts' = [kind |-> out.kind, data |-> out.data]
               /\ cache_file' = out.file
               /\ requests' = IF cache_file.exists THEN requests
                              ELSE requests \o LoadRequests(site, countries, fail_at)
               /\ IF out.kind = "dict"
                  THEN /\ idx_user_resorts' = updated
                       /\ idx_pc' = IF GeoLoopRaises(updated) THEN "failed" ELSE "forecasts"
                       /\ idx_error' = IF GeoLoopRaises(updated) THEN "AttributeError"
                                       ELSE idx_error
                  ELSE /\ idx_pc' = "failed"
                       /\ idx_error' = out.kind
                       /\ UNCHANGED idx_user_resorts
    /\ calls' = calls + 1
    /\ UNCHANGED <<idx_i, elastic_documents, extVars, matchVars, dirVars_but_requests, orchVars>>

\* for resort in user_resorts: if resort.data_url: forecast_for_resort, document
elastic_main_forecast ==
    /\ idx_pc = "forecasts"
    /\ idx_i <= Len(idx_user_resorts)
    /\ LET resort == idx_user_resorts[idx_i]
       IN IF ~Truthy(resort.data_url)
          THEN /\ idx_i' = idx_i + 1
               /\ UNCHANGED <<idx_pc, idx_error, elastic_documents, requests, extVars>>
          ELSE \E ok \in BOOLEAN :
                 LET page == SiteForecastPage(site, resort.data_url)
                     forecast_data_list == ForecastForResort(ok, page)
                 IN /\ requests' = Append(requests, [url |-> resort.data_url, ok |-> ok])
                    /\ forecast_table' = IF ok THEN page ELSE forecast_table
                    /\ forecast_data' = forecast_data_list
                    /\ idx_pc' = IF ok THEN "forecasts" ELSE "failed"
                    /\ idx_error' = IF ok THEN idx_error ELSE "HTTPError"
                    /\ idx_i' = IF ok THEN idx_i + 1 ELSE idx_i
                    /\ elastic_documents' =
                         IF forecast_data_list.kind = "list" /\ forecast_data_list.data # <<>>
                         THEN Append(elastic_documents,
                                     CreateSnowForecastDocument(resort, forecast_data_list.data))
                         ELSE elastic_documents
    /\ UNCHANGED <<idx_user_resorts, snow_forecast_resorts, cache_file, load_call, calls,
                   matchVars, dirVars_but_requests, orchVars>>

\* the documents handed to Elasticsearch; what goes wrong there is caught and logged
elastic_main_index ==
    /\ idx_pc = "forecasts"
    /\ idx_i > Len(idx_user_resorts)
    /\ idx_pc' = "indexed"
    /\ UNCHANGED <<idx_user_resorts, snow_forecast_resorts, cache_file, load_call, calls,
                   idx_error, idx_i, elastic_documents, extVars, matchVars, dirVars, orchVars>>

\* ------------------------------------------------------- specifications
Idle ==
    /\ ExtractIdle
    /\ MatchIdle
    /\ DirIdle
    /\ OrchIdle
    /\ IndexIdle
    /\ site = 0
    /\ config_file = "mapping"

\* the extractor alone, over the forecast pages
NextExtract ==
    \/ forecast_for_resort
    \/ forecast_for_resort_row_removed

SpecExtract == Idle /\ [][NextExtract]_vars

\* the matcher alone, over the directories
NextMatch == get_matching_resort

SpecMatch == Idle /\ [][NextMatch]_vars

\* the directory fetcher alone, over the directory pages
NextDir ==
    \/ get_resorts_with_tabs
    \/ get_resorts_with_tabs_tab

SpecDir == Idle /\ [][NextDir]_vars

\* a call of get_countries, which nothing else of the program makes
NextCountries == get_countries

SpecCountries == Idle /\ [][NextCountries]_vars

\* one run of ForecastService.get_forecasts_for_user_resorts against one of the sites
Init ==
    /\ ExtractIdle
    /\ MatchIdle
    /\ DirIdle
    /\ OrchIdle
    /\ IndexIdle
    /\ site \in Sites
    /\ config_file \in ConfigFiles

Next ==
    \/ load_user_resorts
    \/ update_available_resorts_none
    \/ update_available_resorts_base
    \/ update_available_resorts_tab
    \/ update_available_resorts_store
    \/ get_forecast_for_entry
    \/ get_forecasts_next_country
    \/ get_forecasts_none_list
    \/ get_forecasts_return

Spec == Init /\ [][Next]_vars

\* calls of load_snow_forecast_resorts, one after the other, against one of the sites
InitCache ==
    /\ ExtractIdle
    /\ MatchIdle
    /\ DirIdle
    /\ OrchIdle
    /\ IndexIdle
    /\ site \in Sites
    /\ config_file = "mapping"

NextCache == load_snow_forecast_resorts

SpecCache == InitCache /\ [][NextCache]_vars

\* one run of the indexing script against one of the sites; the cache file is
\* missing or left by an earlier run over "ch" alone
InitIndex ==
    /\ ExtractIdle
    /\ MatchIdle
    /\ DirIdle
    /\ OrchIdle
    /\ idx_pc = "start"
    /\ idx_user_resorts = <<>>
    /\ snow_forecast_resorts = NoMapping
    /\ load_call = NoLoadCall
    /\ calls = 0
    /\ idx_error = ""
    /\ idx_i = 1
    /\ elastic_documents = <<>>
    /\ site \in Sites
    /\ config_file \in ConfigFiles
    /\ cache_file \in {NoCacheFile,
                       LoadSnowForecastResorts(site, NoCacheFile, <<"ch">>, FALSE, 0).file}

NextIndex ==
    \/ elastic_main_start
    \/ elastic_main_reload
    \/ elastic_main_forecast
    \/ elastic_main_index

SpecIndex == InitIndex /\ [][NextIndex]_vars

\* ------------------------------------------------------ extractor claims
Fields == {"date", "time", "snow", "freezing_level", "humidity", "wind"}

\* the text of a cell with the whitespace at its two ends removed
Trimmed(s) ==
    LET solid == {i \in 1..Len(s) : s[i] \notin Whitespace}
    IN IF solid = {} THEN <<>>
       ELSE SubSeq(s, CHOOSE i \in solid : \A k \in solid : i <= k,
                      CHOOSE i \in solid : \A k \in solid : i >= k)

\* the span a days cell declares, 1 when it declares none
DeclaredSpan(day_cell) ==
    CASE day_cell.colspan = None -> 1
      [] day_cell.colspan = <<"0">> -> 0
      [] day_cell.colspan = <<"1">> -> 1
      [] day_cell.colspan = <<"2">> -> 2

RECURSIVE SpanSum(_, _)
SpanSum(day_cells, j) == IF j = 0 THEN 0 ELSE SpanSum(day_cells, j - 1) + DeclaredSpan(day_cells[j])

Returned == forecast_data.kind = "list"

\* C1: a table whose time row is present with N cells yields exactly N periods,
\* whatever other rows are present or absent.
C1_PeriodCount ==
    (Returned /\ forecast_table.time.present)
        => Len(forecast_data.data) = Len(forecast_table.time.cells)

\* C2: with every declared span >= 1, period i carries the date of the days cell
\* whose span covers column i.
C2_DateBroadcast ==
    (Returned /\ forecast_table.days.present /\ forecast_table.time.present)
        => LET day_cells == forecast_table.days.cells
           IN (\A j \in 1..Len(day_cells) : DeclaredSpan(day_cells[j]) >= 1)
                => \A i \in 1..Len(forecast_table.time.cells) :
                     \A j \in 1..Len(day_cells) :
                        (SpanSum(day_cells, j - 1) < i /\ i <= SpanSum(day_cells, j))
                            => /\ i <= Len(forecast_data.data)
                               /\ forecast_data.data[i].date = day_cells[j].date

C2_Witness ==
    /\ Returned
    /\ Len(forecast_table.time.cells) = 3
    /\ forecast_table.days.present
    /\ Len(forecast_table.days.cells) = 2
    /\ forecast_table.days.cells[1].colspan = <<"2">>
    /\ forecast_table.days.cells[2].colspan = <<"1">>
    /\ Len(forecast_data.data) = 3
    /\ forecast_data.data[1].date = <<DateTexts[1]>>
    /\ forecast_data.data[2].date = <<DateTexts[1]>>
    /\ forecast_data.data[3].date = <<DateTexts[2]>>

\* C3: a snow cell that is the em-dash yields "0", any other snow text is returned
\* as it is, and an em-dash in the other three rows is returned as the em-dash.
C3_SnowOnlyNormalization ==
    Returned =>
        \A i \in 1..Len(forecast_data.data) :
            /\ \A m \in Measurements \ {"snow"} :
                 (forecast_table[m].present /\ i <= Len(forecast_table[m].cells))
                    => forecast_data.data[i][m] = Trimmed(forecast_table[m].cells[i])
            /\ (forecast_table.snow.present /\ i <= Len(forecast_table.snow.cells))
                    => forecast_data.data[i].snow =
                         IF Trimmed(forecast_table.snow.cells[i]) = EmDash
                         THEN <<"0">>
                         ELSE Trimmed(forecast_table.snow.cells[i])

C3_Witness ==
    /\ Returned
    /\ \E i \in 1..Len(forecast_data.data) :
         /\ i <= Len(forecast_table.snow.cells)
         /\ Trimmed(forecast_table.snow.cells[i]) = EmDash
         /\ forecast_data.data[i].snow = <<"0">>
    /\ \E i \in 1..Len(forecast_data.data) :
         /\ i <= Len(forecast_table.snow.cells)
         /\ forecast_data.data[i].snow = <<"5">>
    /\ \E i \in 1..Len(forecast_data.data), m \in Measurements \ {"snow"} :
         /\ i <= Len(forecast_table[m].cells)
         /\ forecast_data.data[i][m] = EmDash

\* C4: fetching the same table without one measurement row gives that field None
\* in every period, and the same period count and the same other fields.
C4_MissingRow ==
    [][\A m \in Measurements :
         (Returned /\ forecast_table[m].present
                   /\ forecast_table' = WithoutRow(forecast_table, m))
            => /\ forecast_data'.kind = "list"
               /\ Len(forecast_data'.data) = Len(forecast_data.data)
               /\ \A i \in 1..Len(forecast_data'.data) :
                    /\ forecast_data'.data[i][m] = None
                    /\ \A f \in Fields \ {m} :
                         forecast_data'.data[i][f] = forecast_data.data[i][f]]_vars

C4_Witness ==
    /\ Returned
    /\ ~forecast_table.wind.present
    /\ Len(forecast_data.data) = 3
    /\ \A i \in 1..3 :
         /\ forecast_data.data[i].wind = None
         /\ forecast_data.data[i].snow # None
         /\ forecast_data.data[i].humidity # None
         /\ forecast_data.data[i].freezing_level # None

\* -------------------------------------------------------- matcher claims
CasePairs == { <<"A", "a">>, <<"B", "b">>, <<"T", "t">>, <<"O", "o">>, <<"P", "p">> }

\* the two names are the same up to the case of their letters
EqualIgnoringCase(a, b) ==
    /\ Len(a) = Len(b)
    /\ \A i \in 1..Len(a) :
         \/ a[i] = b[i]
         \/ <<a[i], b[i]>> \in CasePairs
         \/ <<b[i], a[i]>> \in CasePairs
         \/ \E u \in {p[1] : p \in CasePairs} : <<u, a[i]>> \in CasePairs /\ <<u, b[i]>> \in CasePairs

\* name holds typed as a run of consecutive characters, up to case
ContainsIgnoringCase(name, typed) ==
    \E k \in 0..(Len(name) - Len(typed)) :
        EqualIgnoringCase(SubSeq(name, k + 1, k + Len(typed)), typed)

Least(S) == CHOOSE i \in S : \A k \in S : i <= k

QueriedDirectory ==
    IF match_query.country \in DOMAIN available_resorts
    THEN available_resorts[match_query.country] ELSE <<>>

ExactHits ==
    {i \in 1..Len(QueriedDirectory) :
        EqualIgnoringCase(QueriedDirectory[i].name, match_query.resort_name)}

SubstringHits ==
    {i \in 1..Len(QueriedDirectory) :
        ContainsIgnoringCase(QueriedDirectory[i].name, match_query.resort_name)}

\* C5: when some listing equals the typed name up to case, the matcher returns the
\* first such listing, even if an earlier listing merely contains the typed name.
C5_Precedence ==
    (match_query.called /\ ExactHits # {})
        => match_result = <<QueriedDirectory[Least(ExactHits)]>>

C5_Witness ==
    /\ match_query.called
    /\ ExactHits # {}
    /\ Least(SubstringHits) < Least(ExactHits)
    /\ match_result = <<QueriedDirectory[Least(ExactHits)]>>

\* C6: with no exact match the matcher returns the first listing that contains the
\* typed name up to case, and None exactly when no listing of the country contains
\* it or the country was never fetched.
C6_Fallback ==
    match_query.called =>
        /\ (ExactHits = {} /\ SubstringHits # {})
              => match_result = <<QueriedDirectory[Least(SubstringHits)]>>
        /\ match_result = <<>>
              <=> (match_query.country \notin DOMAIN available_resorts \/ SubstringHits = {})

C6_Witness ==
    /\ match_query.called
    /\ ExactHits = {}
    /\ Cardinality(SubstringHits) = 2
    /\ Len(QueriedDirectory[1].name) > Len(QueriedDirectory[2].name)
    /\ match_result = <<QueriedDirectory[1]>>

\* ------------------------------------------------------ directory claims
\* a row with a data-url, a name element and a link in it
WellFormed(row) == Truthy(row.data_url) /\ row.name_cell.present /\ row.name_cell.a # None

\* one listing per well-formed row, in document order, the other rows skipped
WellFormedListings(rows) ==
    LET kept == SelectSeq(rows, WellFormed)
    IN [i \in 1..Len(kept) |->
          [name |-> Trimmed(kept[i].name_cell.text),
           data_url |-> kept[i].data_url,
           url |-> kept[i].name_cell.a]]

RECURSIVE Flatten(_)
Flatten(lists) == IF lists = <<>> THEN <<>> ELSE Head(lists) \o Flatten(Tail(lists))

RECURSIVE Sum(_)
Sum(numbers) == IF numbers = <<>> THEN 0 ELSE Head(numbers) + Sum(Tail(numbers))

\* C8: every page yields one listing per row that has a data-url and a name
\* element, in document order, and a partial or malformed row (no data-url, no
\* name element, no link in the name element) is skipped without raising.
C8_RowExtraction ==
    /\ dir_error # "TypeError"
    /\ dir_pc \in {"tabs", "returned"}
         => resorts = Flatten([k \in 1..Len(fetched_pages) |->
                                  WellFormedListings(fetched_pages[k].rows)])

\* C9: get_resorts_with_tabs returns the base page's listings followed by those of
\* every tab page, tabs in document order, nothing dropped or de-duplicated.
C9_DirectoryUnion ==
    dir_pc = "returned" =>
        LET per_page == [k \in 1..Len(fetched_pages) |->
                            ExtractResortsFromPage(fetched_pages[k].rows).data]
            tabs == TabUrls(fetched_pages[1])
        IN /\ Len(fetched_pages) = 1 + Len(tabs)
           /\ \E country \in Countries :
                [k \in 1..Len(requests) |-> requests[k].url] = <<BaseUrl(country)>> \o tabs
           /\ \A k \in 1..Len(requests) : requests[k].ok
           /\ resorts = Flatten(per_page)
           /\ Len(resorts) = Sum([k \in 1..Len(per_page) |-> Len(per_page[k])])

C9_Witness ==
    /\ dir_pc = "returned"
    /\ Len(fetched_pages) = 3
    /\ Len(resorts) = 4
    /\ resorts[1] = resorts[3]
    /\ resorts[2] # resorts[4]

\* --------------------------------------------------- orchestrator claims
\* the watch entries, as (country index, name index) pairs
WatchEntries ==
    {e \in (1..Len(user_resorts)) \X (1..MaxWatch + 1) :
        e[2] <= Len(user_resorts[e[1]].resort_names)}

EntryDirectory(e) ==
    IF user_resorts[e[1]].country \in DOMAIN available_resorts
    THEN available_resorts[user_resorts[e[1]].country] ELSE <<>>

EntryName(e) == user_resorts[e[1]].resort_names[e[2]]

EntryExactHits(e) ==
    {i \in 1..Len(EntryDirectory(e)) : EqualIgnoringCase(EntryDirectory(e)[i].name, EntryName(e))}

EntrySubstringHits(e) ==
    {i \in 1..Len(EntryDirectory(e)) : ContainsIgnoringCase(EntryDirectory(e)[i].name, EntryName(e))}

\* the entry resolves to a listing of its country's directory
Resolves(e) == EntrySubstringHits(e) # {}

\* the listing it resolves to: the first exact one, else the first containing one
EntryListing(e) ==
    IF EntryExactHits(e) # {} THEN EntryDirectory(e)[Least(EntryExactHits(e))]
    ELSE EntryDirectory(e)[Least(EntrySubstringHits(e))]

\* what the extractor returns for the page the site serves for the listing
EntryExtraction(e) == ForecastData(SiteForecastPage(site, EntryListing(e).data_url))

YieldsPeriods(e) ==
    Resolves(e) /\ EntryExtraction(e).kind = "list" /\ EntryExtraction(e).data # <<>>

LastRequestFailed == requests # <<>> /\ ~requests[Len(requests)].ok

\* the run stopped at a country whose configured list is null
StoppedAtNullList ==
    /\ error = "TypeError"
    /\ ci <= Len(user_resorts)
    /\ user_resorts[ci].null

\* the run stopped before its first request: resorts.yaml is missing or empty
StoppedWithoutWatchList ==
    /\ config_file # "mapping"
    /\ error \in {"FileNotFoundError", "AttributeError"}
    /\ requests = <<>>

\* C7: with no transport failure the returned mapping has exactly the canonical
\* names of the entries that resolve and whose extraction is non-empty as keys; an
\* unmatched entry or an empty or absent extraction gives no key and no error; each
\* value has as many periods as the scraped table has time slots.
C7_OrchestratorOutput ==
    /\ pc = "failed" => LastRequestFailed \/ StoppedAtNullList \/ StoppedWithoutWatchList
    /\ pc = "done" =>
         /\ \A k \in 1..Len(requests) : requests[k].ok
         /\ DOMAIN forecasts = {EntryListing(e).name : e \in {x \in WatchEntries : YieldsPeriods(x)}}
         /\ \A name \in DOMAIN forecasts :
              \E e \in WatchEntries :
                 /\ YieldsPeriods(e)
                 /\ EntryListing(e).name = name
                 /\ Len(forecasts[name]) =
                      Len(SiteForecastPage(site, EntryListing(e).data_url).time.cells)

C7_Witness ==
    /\ pc = "done"
    /\ DOMAIN forecasts # {}
    /\ \E e \in WatchEntries : ~Resolves(e)
    /\ \E e \in WatchEntries : Resolves(e) /\ EntryExtraction(e).kind = "list" /\ ~YieldsPeriods(e)
    /\ \E e \in WatchEntries : Resolves(e) /\ EntryExtraction(e).kind = "None"

\* C10: a non-2xx response is the last request of the run: the error leaves
\* get_forecasts_for_user_resorts, no listing of the failing country is stored and
\* no mapping is returned, and nothing is requested after it.
C10_TransportFatal ==
    \A k \in 1..Len(requests) :
        ~requests[k].ok =>
            /\ k = Len(requests)
            /\ pc = "failed"
            /\ error = "HTTPError"
            /\ dir_pc = "raised" => user_resorts[ci].country \notin DOMAIN available_resorts

C10_Witness ==
    /\ pc = "failed"
    /\ LastRequestFailed
    /\ Len(requests) >= 3
    /\ DOMAIN forecasts # {}
    /\ \E k \in 1..Len(requests) - 1 : requests[k].url = requests[Len(requests)].url

\* ------------------------------------------------------------ null lists
\* C11: a country whose resort list is empty or null is accepted: it gives no watch
\* entries and no keys, and the run goes on with the other countries without raising.
C11_NullListAccepted ==
    \A i \in 1..Len(user_resorts) :
        (user_resorts[i].null \/ user_resorts[i].resort_names = <<>>) =>
            ~(pc = "failed" /\ error = "TypeError" /\ ci = i)

\* ---------------------------------------------------- order of requests
RequestUrls == [k \in 1..Len(requests) |-> requests[k].url]

IsPrefix(a, b) == Len(a) <= Len(b) /\ a = SubSeq(b, 1, Len(a))

\* the directory requests of one country: its base page, then its tab links as the
\* base page lists them
CountryDirectoryUrls(country) ==
    <<BaseUrl(country)>> \o
        (IF SiteBasePage(site, country).tabs.present
         THEN SiteBasePage(site, country).tabs.hrefs ELSE <<>>)

ExpectedDirectoryUrls ==
    Flatten([i \in 1..Len(user_resorts) |-> CountryDirectoryUrls(user_resorts[i].country)])

\* the forecast requests of one country: the data url of each entry that resolves,
\* in configured order
CountryForecastUrls(i) ==
    Flatten([j \in 1..Len(user_resorts[i].resort_names) |->
                IF Resolves(<<i, j>>) THEN <<EntryListing(<<i, j>>).data_url>> ELSE <<>>])

ExpectedForecastUrls == Flatten([i \in 1..Len(user_resorts) |-> CountryForecastUrls(i)])

DirectoriesFetched ==
    \A i \in 1..Len(user_resorts) : user_resorts[i].country \in DOMAIN available_resorts

\* C12: the requests of one run come in one fixed order: per country in watch-list
\* order its base page once and then its tabs in document order; forecast pages only
\* after the directories, by country in watch-list order and by resort in configured
\* order.
C12_RequestOrder ==
    LET asked == RequestUrls
        directory_urls == ExpectedDirectoryUrls
        all_urls == directory_urls \o ExpectedForecastUrls
    IN /\ \/ IsPrefix(asked, directory_urls)
          \/ /\ DirectoriesFetched
             /\ IsPrefix(directory_urls, asked)
             /\ IsPrefix(asked, all_urls)
       /\ pc = "done" =>
            /\ asked = all_urls
            /\ \A i \in 1..Len(user_resorts) :
                 Cardinality({k \in 1..Len(asked) :
                                 asked[k] = BaseUrl(user_resorts[i].country)}) = 1
       /\ \A k \in 1..Len(asked) :
            (\E d \in 1..Len(DataUrls) : asked[k] = DataUrls[d]) =>
                DirectoriesFetched /\ k > Len(directory_urls)

C12_Witness ==
    /\ pc = "done"
    /\ Len(user_resorts) = 2
    /\ \E i \in 1..2 : Len(CountryDirectoryUrls(user_resorts[i].country)) = 3
    /\ \A i \in 1..2 : Len(CountryForecastUrls(i)) >= 1
    /\ \E i \in 1..2 : \E j \in 1..Len(user_resorts[i].resort_names) : ~Resolves(<<i, j>>)
    /\ \E k \in 1..Len(requests) - 1 : requests[k].url # requests[k + 1].url
                                         /\ k > Len(ExpectedDirectoryUrls)

\* ---------------------------------------------------- positional padding
\* the length of each of the five sequences of the scraped table
SequenceLength(table, f) ==
    IF f = "date"
    THEN IF table.days.present THEN SpanSum(table.days.cells, Len(table.days.cells)) ELSE 0
    ELSE IF table[f].present THEN Len(table[f].cells) ELSE 0

\* the i-th value of each sequence, for i within its length
SequenceValue(table, f, i) ==
    CASE f = "date" ->
            LET j == CHOOSE j \in 1..Len(table.days.cells) :
                        SpanSum(table.days.cells, j - 1) < i /\ i <= SpanSum(table.days.cells, j)
            IN table.days.cells[j].date
      [] f = "snow" ->
            IF Trimmed(table.snow.cells[i]) = EmDash THEN <<"0">>
            ELSE Trimmed(table.snow.cells[i])
      [] OTHER -> Trimmed(table[f].cells[i])

\* C13: with N time cells there are N periods, and period i takes the i-th value
\* of each of the five sequences when the sequence reaches i and None when it does
\* not; what a sequence holds beyond N is ignored.
C13_PositionalPadding ==
    (forecast_table.table /\ forecast_table.time.present /\ forecast_data # NotCalled) =>
        /\ Returned
        /\ Len(forecast_data.data) = Len(forecast_table.time.cells)
        /\ \A i \in 1..Len(forecast_table.time.cells) :
             /\ i <= Len(forecast_data.data)
             /\ \A f \in Fields :
                  forecast_data.data[i][f] =
                     IF i <= SequenceLength(forecast_table, f)
                     THEN SequenceValue(forecast_table, f, i) ELSE None

\* ------------------------------------------------------- directory cache
\* the mapping a call returned holds every country the call asked for
ReturnedCoversRequest ==
    (load_call.called /\ snow_forecast_resorts.kind = "dict") =>
        \A k \in 1..Len(load_call.countries) :
            load_call.countries[k] \in DOMAIN snow_forecast_resorts.data

\* no listing of a country is twice in the cache file
CacheHoldsEachOnce ==
    \A i, j \in 1..Len(cache_file.lines) :
        i < j => cache_file.lines[i] # cache_file.lines[j]

\* C16: after any calls of load_snow_forecast_resorts, each returned mapping has an
\* entry for every requested country and the cache file holds each fetched listing
\* of a country at most once.
C16_CacheCoverage == ReturnedCoversRequest /\ CacheHoldsEachOnce

\* ------------------------------------------------ the indexing resolver
\* the entry carries the listing the matcher returns for it over the same directories
AgreesWithMatcher(user_resort) ==
    LET resort == GetMatchingResort(snow_forecast_resorts.data, user_resort.country,
                                    user_resort.name)
    IN IF resort = <<>>
       THEN user_resort.url = None /\ user_resort.data_url = None
       ELSE user_resort.url = resort[1].url /\ user_resort.data_url = resort[1].data_url

\* the entries the forecast loop has gone through, the failing one included
EntriesGoneThrough ==
    IF idx_pc = "failed" /\ idx_error = "HTTPError" /\ snow_forecast_resorts.kind # "HTTPError"
    THEN SubSeq(idx_user_resorts, 1, idx_i)
    ELSE SubSeq(idx_user_resorts, 1, idx_i - 1)

ForecastRequestUrls ==
    LET asked == SelectSeq(requests, LAMBDA r : \E d \in 1..Len(DataUrls) : r.url = DataUrls[d])
    IN [k \in 1..Len(asked) |-> asked[k].url]

\* C14: update_user_resorts gives every watch entry the listing get_matching_resort
\* returns for the same country, name and directory; an entry without a match keeps
\* url and data_url unset and the forecast loop passes it without a request.
C14_ResolverAgrees ==
    /\ snow_forecast_resorts.kind = "dict" =>
         \A k \in 1..Len(idx_user_resorts) : AgreesWithMatcher(idx_user_resorts[k])
    /\ LET with_data_url == SelectSeq(EntriesGoneThrough, LAMBDA r : r.data_url # None)
       IN ForecastRequestUrls = [k \in 1..Len(with_data_url) |-> with_data_url[k].data_url]

\* -------------------------------------------------------- key uniqueness
\* the entry is gone through before the other: countries in watch-list order, then
\* names in configured order
Before(e, f) == e[1] < f[1] \/ (e[1] = f[1] /\ e[2] < f[2])

ResolvingTo(name) == {e \in WatchEntries : Resolves(e) /\ EntryListing(e).name = name}

YieldingFor(name) == {e \in ResolvingTo(name) : YieldsPeriods(e)}

LastOf(entries) == CHOOSE e \in entries : \A f \in entries : f = e \/ Before(f, e)

CanonicalNames == {EntryListing(e).name : e \in {x \in WatchEntries : Resolves(x)}}

\* the forecast page is requested once per resolving entry
OneRequestPerEntry ==
    Len(SelectSeq(requests, LAMBDA r : \E d \in 1..Len(DataUrls) : r.url = DataUrls[d]))
        = Cardinality({e \in WatchEntries : Resolves(e)})

\* C15 as stated: one key per canonical name, one request per resolving entry, and
\* under a name the periods of the entry gone through last among those that resolve
\* to it.
C15_LastEntryWins ==
    pc = "done" =>
        /\ OneRequestPerEntry
        /\ DOMAIN forecasts \subseteq CanonicalNames
        /\ \A name \in DOMAIN forecasts :
             forecasts[name] = EntryExtraction(LastOf(ResolvingTo(name))).data

\* C15 (amended): one key per canonical name, one request per resolving entry, and
\* under a name the periods of the last entry whose extraction is non-empty among
\* those that resolve to it; a later entry with an empty or absent extraction leaves
\* the earlier periods in place.
C15_LastYieldingEntryWins ==
    pc = "done" =>
        /\ OneRequestPerEntry
        /\ DOMAIN forecasts = {name \in CanonicalNames : YieldingFor(name) # {}}
        /\ \A name \in DOMAIN forecasts :
             forecasts[name] = EntryExtraction(LastOf(YieldingFor(name))).data

\* two entries of different countries yield different periods under one name, and
\* there are fewer keys than yielding entries
C15_Witness ==
    /\ pc = "done"
    /\ \E name \in DOMAIN forecasts :
         \E e, f \in YieldingFor(name) :
            /\ e[1] # f[1]
            /\ EntryExtraction(e).data # EntryExtraction(f).data
    /\ Cardinality(DOMAIN forecasts) < Cardinality({e \in WatchEntries : YieldsPeriods(e)})

====
